---- MODULE Spec2Model ----
(***************************************************************************)
(* Model of the TATIS360 chatbot core of uraics-revenue-assurance:         *)
(* detect_intent (the intent classifier) and generate_response (the query  *)
(* dispatcher and response formatter) of components/tatis360.py.           *)
(*                                                                         *)
(* A Python str is modelled as a sequence of one-character strings, so     *)
(* that re.search, str.lower, str.strip and the `in` substring test are    *)
(* computed character by character, as the interpreter computes them.      *)
(***************************************************************************)
EXTENDS Integers, Sequences, FiniteSets, TLC

(***************************************************************************)
(* Bounds of the model.                                                    *)
(***************************************************************************)
\* largest number of vocabulary words in a generated user input
MaxWords == 3
\* largest number of risk records in one taxpayer row of the store
MaxRisks == 10
\* largest number of rows the store answers to a list query
MaxRows == 21

(***************************************************************************)
(* Python values.                                                          *)
(***************************************************************************)
\* Python's None, in the place of a str (no str holds a 4-character element)
None == <<"None">>

\* a test `is not None` in the place of the truth value
Truthy_not_none(v) == v # None

\* truth value of an Optional[str]: None and '' are falsy
Truthy(v) == v # None /\ v # << >>

SetMin(S) == CHOOSE x \in S : \A y \in S : x <= y

SetMax(S) == CHOOSE x \in S : \A y \in S : x >= y

(***************************************************************************)
(* str.lower and str.strip.                                                *)
(***************************************************************************)
LowerChar(c) ==
    CASE c = "A" -> "a" [] c = "B" -> "b" [] c = "C" -> "c" [] c = "D" -> "d"
      [] c = "E" -> "e" [] c = "F" -> "f" [] c = "G" -> "g" [] c = "H" -> "h"
      [] c = "I" -> "i" [] c = "J" -> "j" [] c = "K" -> "k" [] c = "L" -> "l"
      [] c = "M" -> "m" [] c = "N" -> "n" [] c = "O" -> "o" [] c = "P" -> "p"
      [] c = "Q" -> "q" [] c = "R" -> "r" [] c = "S" -> "s" [] c = "T" -> "t"
      [] c = "U" -> "u" [] c = "V" -> "v" [] c = "W" -> "w" [] c = "X" -> "x"
      [] c = "Y" -> "y" [] c = "Z" -> "z" [] OTHER -> c

\* a lower() that leaves the text as typed
Lower_as_typed(s) == s

Lower(s) == [i \in 1..Len(s) |-> LowerChar(s[i])]

Whitespace == {" ", "\n", "\t"}

Strip(s) ==
    LET keep == {i \in 1..Len(s) : s[i] \notin Whitespace}
    IN  IF keep = {} THEN << >> ELSE SubSeq(s, SetMin(keep), SetMax(keep))

(***************************************************************************)
(* The regular-expression shapes used by detect_intent, as re.search       *)
(* evaluates them: leftmost start, greedy quantifiers, `.` excludes the    *)
(* newline, \w is a letter, a digit or the underscore.                     *)
(***************************************************************************)
WordChars ==
    {"a","b","c","d","e","f","g","h","i","j","k","l","m","n","o","p","q","r",
     "s","t","u","v","w","x","y","z",
     "A","B","C","D","E","F","G","H","I","J","K","L","M","N","O","P","Q","R",
     "S","T","U","V","W","X","Y","Z",
     "0","1","2","3","4","5","6","7","8","9","_"}

IsWord(c) == c \in WordChars

\* lit occurs in s at position i
MatchAt(s, lit, i) ==
    /\ i >= 1
    /\ i + Len(lit) - 1 <= Len(s)
    /\ SubSeq(s, i, i + Len(lit) - 1) = lit

\* Python's `kw in s`
Contains(s, kw) == \E i \in 1..(Len(s) - Len(kw) + 1) : MatchAt(s, kw, i)

\* last position of the run of \w characters that starts at k
WordEnd(s, k) ==
    LET stops == {j \in k..Len(s) : ~IsWord(s[j])}
    IN  IF stops = {} THEN Len(s) ELSE SetMin(stops) - 1

\* last position a `.*` or `.+` starting at k can reach (k-1 when it is empty)
DotEnd(s, k) ==
    LET stops == {j \in k..Len(s) : s[j] = "\n"}
    IN  IF stops = {} THEN Len(s) ELSE SetMin(stops) - 1

NoMatch == [matched |-> FALSE, group |-> None]

\* r'LIT(\w+)'
SearchLitWord(s, lit) ==
    LET n == Len(lit)
        starts == {i \in 1..Len(s) :
                      /\ MatchAt(s, lit, i)
                      /\ i + n <= Len(s)
                      /\ IsWord(s[i + n])}
    IN  IF starts = {} THEN NoMatch
        ELSE LET i == SetMin(starts)
             IN  [matched |-> TRUE,
                  group |-> SubSeq(s, i + n, WordEnd(s, i + n))]

\* r'LIT.*(\w+)'
SearchLitAnyWord(s, lit) ==
    LET n == Len(lit)
        Words(i) == {j \in (i + n)..DotEnd(s, i + n) : IsWord(s[j])}
        starts == {i \in 1..Len(s) : MatchAt(s, lit, i) /\ Words(i) # {}}
    IN  IF starts = {} THEN NoMatch
        ELSE LET i == SetMin(starts)
                 j == SetMax(Words(i))
             IN  [matched |-> TRUE, group |-> SubSeq(s, j, WordEnd(s, j))]

\* r'LIT1.*LIT2' (no group); LIT2 = '' gives the plain literal r'LIT1'
SearchLitAnyLit(s, lit1, lit2) ==
    IF \E i \in 1..Len(s) :
          /\ MatchAt(s, lit1, i)
          /\ \E j \in (i + Len(lit1))..(DotEnd(s, i + Len(lit1)) + 1) :
                 MatchAt(s, lit2, j)
    THEN [matched |-> TRUE, group |-> None]
    ELSE NoMatch

\* r'LIT.*(?:ALT1|ALT2|...)(.+)'
SearchLitAnyAltRest(s, lit, alts) ==
    LET n == Len(lit)
        Alt(q) == {a \in 1..Len(alts) :
                      /\ MatchAt(s, alts[a], q)
                      /\ q + Len(alts[a]) <= Len(s)
                      /\ s[q + Len(alts[a])] # "\n"}
        Cuts(i) == {q \in (i + n)..(DotEnd(s, i + n) + 1) : Alt(q) # {}}
        starts == {i \in 1..Len(s) : MatchAt(s, lit, i) /\ Cuts(i) # {}}
    IN  IF starts = {} THEN NoMatch
        ELSE LET i == SetMin(starts)
                 q == SetMax(Cuts(i))
                 k == q + Len(alts[SetMin(Alt(q))])
             IN  [matched |-> TRUE, group |-> SubSeq(s, k, DotEnd(s, k))]

\* re.search(pattern, s): whether it matched and match.group(1), or None
\* when the pattern has no group
re_search(pattern, s) ==
    CASE pattern.shape = "lit_word" -> SearchLitWord(s, pattern.lit)
      [] pattern.shape = "lit_any_word" -> SearchLitAnyWord(s, pattern.lit)
      [] pattern.shape = "lit_any_lit" ->
             SearchLitAnyLit(s, pattern.lit, pattern.lit2)
      [] pattern.shape = "lit_any_alt_rest" ->
             SearchLitAnyAltRest(s, pattern.lit, pattern.alts)

LitWord(lit) == [shape |-> "lit_word", lit |-> lit]

LitAnyWord(lit) == [shape |-> "lit_any_word", lit |-> lit]

LitAnyLit(lit1, lit2) == [shape |-> "lit_any_lit", lit |-> lit1, lit2 |-> lit2]

LitAnyAltRest(lit, alts) ==
    [shape |-> "lit_any_alt_rest", lit |-> lit, alts |-> alts]

(***************************************************************************)
(* The intents dictionary of detect_intent, in insertion order.            *)
(***************************************************************************)
search_tin_config ==
    [intent |-> "search_tin",
     patterns |-> <<
        LitWord(<<"s","e","a","r","c","h"," ">>),
        LitWord(<<"f","i","n","d"," ">>),
        LitWord(<<"t","i","n"," ">>),
        LitWord(<<"t","a","x","p","a","y","e","r"," ">> ) >>,
     keywords |-> <<
        <<"t","i","n">>,
        <<"s","e","a","r","c","h">>,
        <<"f","i","n","d">>,
        <<"t","a","x","p","a","y","e","r">> >>]

search_name_config ==
    [intent |-> "search_name",
     patterns |-> <<
        LitAnyAltRest(<<"s","e","a","r","c","h"," ">>,
                      << <<" ","t","a","x","p","a","y","e","r"," ">>,
                         <<" ","c","o","m","p","a","n","y"," ">> >>),
        LitAnyAltRest(<<"f","i","n","d"," ">>, << <<" ">> >>) >>,
     keywords |-> <<
        <<"n","a","m","e">>,
        <<"c","o","m","p","a","n","y">>,
        <<"b","u","s","i","n","e","s","s">> >>]

risk_analysis_config ==
    [intent |-> "risk_analysis",
     patterns |-> <<
        LitAnyWord(<<"r","i","s","k">>),
        LitAnyLit(<<"a","n","a","l","y","z","e"," ","r","i","s","k">>, << >>) >>,
     keywords |-> <<
        <<"r","i","s","k">>,
        <<"f","l","a","g","g","e","d">>,
        <<"e","x","p","o","s","u","r","e">>,
        <<"p","r","o","f","i","l","e">> >>]

related_config ==
    [intent |-> "related",
     patterns |-> <<
        LitAnyWord(<<"s","i","m","i","l","a","r">>),
        LitAnyWord(<<"r","e","l","a","t","e","d">>),
        LitAnyWord(<<"n","e","t","w","o","r","k">>) >>,
     keywords |-> <<
        <<"s","i","m","i","l","a","r">>,
        <<"r","e","l","a","t","e","d">>,
        <<"n","e","t","w","o","r","k">>,
        <<"c","o","n","n","e","c","t","e","d">> >>]

pathway_config ==
    [intent |-> "pathway",
     patterns |-> <<
        LitAnyWord(<<"e","v","i","d","e","n","c","e">>),
        LitAnyWord(<<"p","a","t","h","w","a","y">>) >>,
     keywords |-> <<
        <<"e","v","i","d","e","n","c","e">>,
        <<"p","a","t","h","w","a","y">>,
        <<"d","e","t","a","i","l","s">> >>]

sector_analysis_config ==
    [intent |-> "sector_analysis",
     patterns |-> <<
        LitWord(<<"s","e","c","t","o","r"," ">>),
        LitWord(<<"i","n","d","u","s","t","r","y"," ">>) >>,
     keywords |-> <<
        <<"s","e","c","t","o","r">>,
        <<"i","n","d","u","s","t","r","y">>,
        <<"a","g","r","i","c","u","l","t","u","r","e">>,
        <<"m","a","n","u","f","a","c","t","u","r","i","n","g">>,
        <<"s","e","r","v","i","c","e","s">> >>]

high_impact_config ==
    [intent |-> "high_impact",
     patterns |-> <<
        LitAnyLit(<<"h","i","g","h">>, <<"i","m","p","a","c","t">>),
        LitAnyLit(<<"t","o","p">>, <<"c","a","s","e","s">>),
        LitAnyLit(<<"p","r","i","o","r","i","t","y">>, << >>) >>,
     keywords |-> <<
        <<"h","i","g","h">>,
        <<"i","m","p","a","c","t">>,
        <<"p","r","i","o","r","i","t","y">>,
        <<"u","r","g","e","n","t">> >>]

\* the same dictionary with search_name and risk_analysis inserted in the
\* other order
intents_reordered ==
    <<search_tin_config, risk_analysis_config, search_name_config,
      related_config, pathway_config, sector_analysis_config,
      high_impact_config>>

intents ==
    <<search_tin_config, search_name_config, risk_analysis_config,
      related_config, pathway_config, sector_analysis_config,
      high_impact_config>>

(***************************************************************************)
(* detect_intent.                                                          *)
(***************************************************************************)
\* the dict {} and the dict {'extracted_value': v}
EmptyParams == [has |-> FALSE, extracted_value |-> None]

Extracted(v) == [has |-> TRUE, extracted_value |-> v]

\* index of the first pattern of config that matches s, 0 when none does
FirstPattern(config, s) ==
    LET hits == {p \in 1..Len(config.patterns) :
                    re_search(config.patterns[p], s).matched}
    IN  IF hits = {} THEN 0 ELSE SetMin(hits)

\* a keyword test that looks at the first keyword of the definition only
AnyKeyword_first_only(config, s) ==
    config.keywords # << >> /\ Contains(s, config.keywords[1])

\* any(keyword in user_input for keyword in config['keywords'])
AnyKeyword(config, s) ==
    \E k \in 1..Len(config.keywords) : Contains(s, config.keywords[k])

\* the loop over intents.items(), from the d-th definition on: within one
\* definition the patterns are tried first and then the keywords, before
\* the next definition is looked at
RECURSIVE DetectFrom(_, _)
DetectFrom(d, s) ==
    IF d > Len(intents) THEN [intent |-> "help", params |-> EmptyParams]
    ELSE LET config == intents[d]
             p == FirstPattern(config, s)
         IN  IF p # 0
             THEN [intent |-> config.intent,
                   params |-> Extracted(re_search(config.patterns[p], s).group)]
             ELSE IF AnyKeyword(config, s)
                  THEN [intent |-> config.intent, params |-> EmptyParams]
                  ELSE DetectFrom(d + 1, s)

detect_intent(user_input) == DetectFrom(1, Strip(Lower(user_input)))

(***************************************************************************)
(* The graph store.  graph.run(query, ...).data() either raises or         *)
(* returns a list of rows; what it answers is outside the program, so one  *)
(* run is a record [status, data] chosen by the environment.               *)
(*   graph.taxpayer  the answer to the query of search_taxpayer_by_tin     *)
(*   graph.rows      the rows a list query (name, related, cases, sector)  *)
(*                   matches, in the order of its ORDER BY and before its  *)
(*                   LIMIT                                                 *)
(*   graph.pathway   the answer to the query of get_risk_pathway           *)
(* Amounts are counted in units of 100 million UGX (1e9 UGX = 10 units).   *)
(***************************************************************************)
\* a Cypher null in a numeric column (amounts are never negative)
NullNum == -1

Exposures == {5, 23}

StoreError == [status |-> "error", data |-> << >>]

NoRows == [status |-> "ok", data |-> << >>]

\* the aggregated record of a taxpayer without FLAGGED_BY edge: the
\* OPTIONAL MATCH binds rf and flagged to null, and collect(DISTINCT {...})
\* collects the one map whose values are all null
NullRisk == [riskId |-> None, exposureAmount |-> NullNum]

\* the RiskID of the i-th risk flag of a row: a distinct non-empty str
RiskIdOf(i) == <<"R">> \o [k \in 1..i |-> "I"]

RiskLists ==
    {<<NullRisk>>} \cup
    {[i \in 1..n |-> [riskId |-> RiskIdOf(i), exposureAmount |-> e]] :
        n \in 1..MaxRisks, e \in Exposures}

TaxpayerAnswers ==
    {StoreError, NoRows} \cup
    {[status |-> "ok", data |-> <<[risks |-> rl]>>] : rl \in RiskLists}

\* a list query matches 0..MaxRows rows
ListAnswers ==
    {StoreError} \cup
    {[status |-> "ok", data |-> [i \in 1..n |-> [row |-> i]]] :
        n \in 0..MaxRows}

PathwayAnswers ==
    {StoreError, NoRows} \cup
    {[status |-> "ok", data |-> <<[risk |-> [exposureAmount |-> e]]>>] :
        e \in Exposures \cup {NullNum}}

\* an Optional[Dict] is a sequence: None is << >>, the dict d is <<d>>
NoneDict == << >>

\* the record of one call of graph.run
Query(fn, args, run) ==
    [fn |-> fn, args |-> args, status |-> run.status, rows |-> Len(run.data)]

\* each query function returns [query, value, raised]: the record of the
\* graph.run it issued, what the Python function returns, and whether an
\* exception leaves the function (never: `except Exception` catches it, logs
\* it and returns the empty value)
\* search_taxpayer_by_tin without its try/except
search_taxpayer_by_tin_uncaught(graph, tin) ==
    LET run == graph.taxpayer
    IN  [query |-> Query("search_taxpayer_by_tin", <<tin>>, run),
         value |-> IF run.status = "ok" /\ run.data # << >>
                   THEN <<[tin |-> tin, risks |-> run.data[1].risks]>>
                   ELSE NoneDict,
         raised |-> run.status = "error"]

search_taxpayer_by_tin(graph, tin) ==
    LET run == graph.taxpayer
    IN  [query |-> Query("search_taxpayer_by_tin", <<tin>>, run),
         value |-> IF run.status = "error" THEN NoneDict
                   ELSE IF run.data # << >>
                        THEN <<[tin |-> tin, risks |-> run.data[1].risks]>>
                        ELSE NoneDict,
         raised |-> FALSE]

\* the LIMIT clauses of the list queries
NameLimit == 10

RelatedLimit == 10

HighImpactLimit == 20

\* the sector query has no LIMIT clause
NoLimit == -1

\* the answer of the store to a query whose text ends with LIMIT limit
Limit(run, limit) ==
    IF run.status = "error" \/ limit = NoLimit \/ Len(run.data) <= limit
    THEN run
    ELSE [status |-> "ok", data |-> SubSeq(run.data, 1, limit)]

\* the list query whose text has lost its LIMIT clause
ListQuery_unlimited(fn, graph, args, limit) ==
    LET run == graph.rows
    IN  [query |-> Query(fn, args, run),
         value |-> IF run.status = "error" THEN << >> ELSE run.data,
         raised |-> FALSE]

\* the body shared by the four list queries: [] on an exception, else every
\* row the store answers
ListQuery(fn, graph, args, limit) ==
    LET run == Limit(graph.rows, limit)
    IN  [query |-> Query(fn, args, run),
         value |-> IF run.status = "error" THEN << >> ELSE run.data,
         raised |-> FALSE]

search_taxpayer_by_name(graph, name) ==
    ListQuery("search_taxpayer_by_name", graph, <<name>>, NameLimit)

find_related_taxpayers(graph, tin) ==
    ListQuery("find_related_taxpayers", graph, <<tin>>, RelatedLimit)

find_high_impact_cases(graph) ==
    ListQuery("find_high_impact_cases", graph, << >>, HighImpactLimit)

get_sector_risk_profile(graph, sector) ==
    ListQuery("get_sector_risk_profile", graph, <<sector>>, NoLimit)

get_risk_pathway(graph, tin, risk_id) ==
    LET run == graph.pathway
    IN  [query |-> Query("get_risk_pathway", <<tin, risk_id>>, run),
         value |-> IF run.status = "error" THEN NoneDict
                   ELSE IF run.data # << >> THEN <<run.data[1]>>
                        ELSE NoneDict,
         raised |-> FALSE]

(***************************************************************************)
(* generate_response.                                                      *)
(***************************************************************************)
\* params.get('extracted_value', default)
Get(params, default) ==
    IF params.has THEN params.extracted_value ELSE default

\* the payload {}
EmptyViz == [type |-> "None", data |-> << >>]

\* a normal return of (response, data_for_visualization) after the queries qs
Return(text, arg, viz, qs) ==
    [raised |-> FALSE, response |-> [text |-> text, arg |-> arg],
     viz_data |-> viz, queries |-> qs]

\* an exception that leaves generate_response after the queries qs
Raise(exc, qs) ==
    [raised |-> TRUE, response |-> [text |-> exc, arg |-> << >>],
     viz_data |-> EmptyViz, queries |-> qs]

\* the recommended action with `>` in the place of `>=`
RecommendedAction_strict(risk_count) ==
    IF risk_count > 10 THEN "CRITICAL - Immediate Audit"
    ELSE IF risk_count > 5 THEN "HIGH PRIORITY - Schedule Audit"
    ELSE IF risk_count > 2 THEN "MEDIUM - Review Risk Profile"
    ELSE "LOW - Routine Monitoring"

\* the recommended action of the taxpayer summary
RecommendedAction(risk_count) ==
    IF risk_count >= 10 THEN "CRITICAL - Immediate Audit"
    ELSE IF risk_count >= 5 THEN "HIGH PRIORITY - Schedule Audit"
    ELSE IF risk_count >= 2 THEN "MEDIUM - Review Risk Profile"
    ELSE "LOW - Routine Monitoring"

RECURSIVE SumSeq(_)
SumSeq(xs) == IF xs = << >> THEN 0 ELSE xs[1] + SumSeq(Tail(xs))

SearchTinBranch(graph, params) ==
    LET tin == Get(params, None)
        call == search_taxpayer_by_tin(graph, tin)
        result == call.value
        qs == <<call.query>>
    IN  IF ~Truthy(tin)
        THEN Return("Please provide a TIN number to search", << >>,
                    EmptyViz, << >>)
        ELSE IF call.raised THEN Raise("Exception", qs)
        ELSE IF result = NoneDict
        THEN Return("Taxpayer with TIN not found", tin, EmptyViz, qs)
        ELSE \* every collected risk map is a non-empty dict, hence truthy
             LET risks == result[1].risks
                 risk_count == Len(risks)
                 amounts == [i \in 1..Len(risks) |-> risks[i].exposureAmount]
             IN  \* sum() adds a None exposure to an int
                 IF \E i \in 1..Len(amounts) : amounts[i] = NullNum
                 THEN Raise("TypeError", qs)
                 ELSE Return("Found Taxpayer",
                             [risk_count |-> risk_count,
                              exposure |-> SumSeq(amounts),
                              action |-> RecommendedAction(risk_count)],
                             [type |-> "taxpayer", data |-> result[1]], qs)

SearchNameBranch(graph, params) ==
    LET name == Get(params, << >>)
        call == search_taxpayer_by_name(graph, name)
        results == call.value
    IN  IF call.raised THEN Raise("Exception", <<call.query>>)
        ELSE IF results # << >>
        THEN Return("Found taxpayers matching", name,
                    [type |-> "search_results", data |-> results],
                    <<call.query>>)
        ELSE Return("No taxpayers found with name containing", name,
                    EmptyViz, <<call.query>>)

\* the related branch that looks the taxpayer up before searching its peers
RelatedBranch_lookup_first(graph, params) ==
    LET tin == Get(params, None)
        lookup == search_taxpayer_by_tin(graph, tin)
        call == find_related_taxpayers(graph, tin)
        related == call.value
        qs == <<lookup.query, call.query>>
    IN  IF ~Truthy(tin)
        THEN Return("Please provide a TIN to find related taxpayers", << >>,
                    EmptyViz, << >>)
        ELSE IF call.raised THEN Raise("Exception", qs)
        ELSE IF related # << >>
        THEN Return("Found taxpayers with similar risk profiles", tin,
                    [type |-> "related", data |-> related], qs)
        ELSE Return("No related taxpayers found", << >>, EmptyViz, qs)

RelatedBranch(graph, params) ==
    LET tin == Get(params, None)
        call == find_related_taxpayers(graph, tin)
        related == call.value
    IN  IF ~Truthy(tin)
        THEN Return("Please provide a TIN to find related taxpayers", << >>,
                    EmptyViz, << >>)
        ELSE IF call.raised THEN Raise("Exception", <<call.query>>)
        ELSE IF related # << >>
        THEN Return("Found taxpayers with similar risk profiles", tin,
                    [type |-> "related", data |-> related], <<call.query>>)
        ELSE Return("No related taxpayers found", << >>, EmptyViz,
                    <<call.query>>)

PathwayBranch(graph, params) ==
    LET tin == Get(params, None)
        call1 == search_taxpayer_by_tin(graph, tin)
        taxpayer == call1.value
        risk_id == taxpayer[1].risks[1].riskId
        call2 == get_risk_pathway(graph, tin, risk_id)
        pathway == call2.value
    IN  IF ~Truthy(tin)
        THEN Return("Please provide a TIN", << >>, EmptyViz, << >>)
        ELSE IF call1.raised THEN Raise("Exception", <<call1.query>>)
        ELSE IF taxpayer = NoneDict \/ taxpayer[1].risks = << >>
        THEN Return("No evidence pathway found", << >>, EmptyViz,
                    <<call1.query>>)
        ELSE IF call2.raised
        THEN Raise("Exception", <<call1.query, call2.query>>)
        ELSE IF pathway = NoneDict
        THEN Return("No evidence pathway found", << >>, EmptyViz,
                    <<call1.query, call2.query>>)
        ELSE \* the exposure is divided by 1e9 for display
             IF pathway[1].risk.exposureAmount = NullNum
             THEN Raise("TypeError", <<call1.query, call2.query>>)
             ELSE Return("Evidence Pathway", risk_id,
                         [type |-> "pathway", data |-> pathway[1]],
                         <<call1.query, call2.query>>)

HighImpactBranch(graph) ==
    LET call == find_high_impact_cases(graph)
        cases == call.value
    IN  IF call.raised THEN Raise("Exception", <<call.query>>)
        ELSE IF cases # << >>
        THEN Return("Found high-impact audit cases", Len(cases),
                    [type |-> "cases", data |-> cases], <<call.query>>)
        ELSE Return("No high-impact cases found", << >>, EmptyViz,
                    <<call.query>>)

SectorBranch(graph, params) ==
    LET sector == Get(params,
                      <<"M","a","n","u","f","a","c","t","u","r","i","n","g">>)
        call == get_sector_risk_profile(graph, sector)
        profile == call.value
    IN  IF call.raised THEN Raise("Exception", <<call.query>>)
        ELSE IF profile # << >>
        THEN Return("Risk Profile for Sector", sector,
                    [type |-> "sector", data |-> profile], <<call.query>>)
        ELSE Return("No data available for sector", sector, EmptyViz,
                    <<call.query>>)

generate_response(graph, intent, params) ==
    CASE intent = "search_tin" -> SearchTinBranch(graph, params)
      [] intent = "search_name" -> SearchNameBranch(graph, params)
      [] intent = "related" -> RelatedBranch(graph, params)
      [] intent = "pathway" -> PathwayBranch(graph, params)
      [] intent = "high_impact" -> HighImpactBranch(graph)
      [] intent = "sector_analysis" -> SectorBranch(graph, params)
      [] OTHER -> Return("help", << >>, EmptyViz, << >>)

(***************************************************************************)
(* User inputs.                                                            *)
(***************************************************************************)
\* the words a generated input is made of, as typed (the empty word gives
\* doubled, leading and trailing blanks, the newline word a line break)
Vocabulary == {
    << >>,
    <<"\n">>,
    <<"S","e","a","r","c","h">>,
    <<"f","i","n","d">>,
    <<"T","I","N">>,
    <<"t","a","x","p","a","y","e","r">>,
    <<"c","o","m","p","a","n","y">>,
    <<"r","i","s","k">>,
    <<"S","i","m","i","l","a","r">>,
    <<"E","v","i","d","e","n","c","e">>,
    <<"p","a","t","h","w","a","y">>,
    <<"s","e","c","t","o","r">>,
    <<"h","i","g","h">>,
    <<"i","m","p","a","c","t">>,
    <<"p","r","o","f","i","l","e">>,
    <<"A","b","1">>,
    <<"x">> }

\* ' '.join(words)
RECURSIVE Join(_)
Join(words) ==
    IF words = << >> THEN << >>
    ELSE IF Len(words) = 1 THEN words[1]
    ELSE words[1] \o <<" ">> \o Join(Tail(words))

\* the rows of the table "Intent Detection Examples": input and intent
DocExamples == <<
    [input |-> <<"S","e","a","r","c","h"," ","1","2","3","4","5","6","7","8",
                 "9","0">>,
     intent |-> "search_tin"],
    [input |-> <<"F","i","n","d"," ","U","g","a","n","d","a"," ","B","r","e",
                 "w","e","r","i","e","s">>,
     intent |-> "search_name"],
    [input |-> <<"S","i","m","i","l","a","r"," ","t","o"," ","T","I","N"," ",
                 "X","Y","Z">>,
     intent |-> "related"],
    [input |-> <<"E","v","i","d","e","n","c","e"," ","f","o","r"," ","A","B",
                 "C">>,
     intent |-> "pathway"],
    [input |-> <<"H","i","g","h"," ","i","m","p","a","c","t"," ","c","a","s",
                 "e","s">>,
     intent |-> "high_impact"],
    [input |-> <<"S","e","c","t","o","r"," ","M","a","n","u","f","a","c","t",
                 "u","r","i","n","g">>,
     intent |-> "sector_analysis"] >>

\* the command forms of the help text, without their identifier
SearchTinForm == <<"S","e","a","r","c","h"," ","T","I","N"," ">>

SimilarForm == <<"S","i","m","i","l","a","r"," ">>

EvidencePathwayForm ==
    <<"E","v","i","d","e","n","c","e"," ","p","a","t","h","w","a","y"," ">>

SimilarToTinForm ==
    <<"S","i","m","i","l","a","r"," ","t","o"," ","T","I","N"," ">>

\* identifier tokens put into the command forms
Identifiers == {
    <<"1","2","3","4","5","6","7","8","9","0">>,
    <<"A","b","1">>,
    <<"x">> }

Inputs ==
    {Join(ws) : ws \in UNION {[1..n -> Vocabulary] : n \in 0..MaxWords}}
    \cup {DocExamples[i].input : i \in 1..Len(DocExamples)}
    \cup {form \o id : form \in {SearchTinForm, SimilarForm,
                                 EvidencePathwayForm, SimilarToTinForm},
                       id \in Identifiers}

(***************************************************************************)
(* One request: main() classifies the chat input and dispatches it; a      *)
(* caller may also invoke generate_response with an intent and a params    *)
(* dict of its own.                                                        *)
(***************************************************************************)
VARIABLES
    pc,          \* "start", "classified" or "called", "responded" or "returned"
    user_input,  \* the text of st.chat_input
    intent,      \* the intent handed to generate_response
    params,      \* the params dict handed to generate_response
    queries,     \* the graph.run calls issued by generate_response
    response,    \* the response text (its template and interpolated value)
    viz_data,    \* the payload for visualization
    raised       \* an exception left generate_response

\* the part of the store that find_related_taxpayers reads, and its result
VARIABLES
    flagged_by,  \* the FLAGGED_BY edges: TIN of a Taxpayer -> set of RiskIDs
    related      \* the last call of find_related_taxpayers: [tin, query, value]

\* the chat history of the session
VARIABLES
    messages,    \* st.session_state.messages: a list of [role, content]
    session_state_user_input  \* st.session_state.user_input, None when unset

requestVars ==
    <<pc, user_input, intent, params, queries, response, viz_data, raised>>

relatedVars == <<flagged_by, related>>

\* the audit tasks of the store and the last write operation on them
VARIABLES
    tasks,        \* the AuditTask nodes in creation order; TaskID = position
    assigned_to,  \* assigned_to[i]: the ASSIGNED_TO edges into task i
    now,          \* the clock of the store: the value of datetime()
    last          \* the last call of a write function and what it returned

taskVars == <<tasks, assigned_to, now, last>>

\* the queries a component sends to the store for one user-supplied value
VARIABLES
    typed,       \* the value the user supplied (a TIN)
    sent         \* the queries of the last request: [name, text, params, rows]

textVars == <<typed, sent>>

\* the audit dashboard: the process-wide cache and the pages of the sessions
VARIABLES
    cache,       \* the st.cache_data entry of fetch_all_tasks, or NoCache
    views,       \* views[s]: the task the page of session s shows
    writer       \* the session whose button issued the last write, "" if none

dashVars == <<cache, views, writer>>

chatVars == <<messages, session_state_user_input>>

vars == <<requestVars, chatVars, relatedVars, taskVars, textVars, dashVars>>

IntentTags ==
    {"search_tin", "search_name", "risk_analysis", "related", "pathway",
     "sector_analysis", "high_impact", "help"}

\* the params dicts of a direct call
ParamArgs ==
    {EmptyParams, Extracted(None), Extracted(<< >>)}
    \cup {Extracted(Lower(id)) : id \in Identifiers}

NoResponse == [text |-> "", arg |-> << >>]

\* the answers of the store that generate_response can observe for the
\* intent: the answers to queries it never issues are left at StoreError
Graphs(tag) ==
    [taxpayer : IF tag \in {"search_tin", "pathway"}
                THEN TaxpayerAnswers ELSE {StoreError},
     rows : IF tag \in {"search_name", "related", "high_impact",
                        "sector_analysis"}
            THEN ListAnswers ELSE {StoreError},
     pathway : IF tag = "pathway" THEN PathwayAnswers ELSE {StoreError}]

\* the store holds no RiskFlag whose RiskID is null, so a pathway query
\* bound to the null riskId of a taxpayer without flags answers no row
Consistent(graph) ==
    (graph.taxpayer.data # << >> /\ graph.taxpayer.data[1].risks = <<NullRisk>>)
        => graph.pathway.data = << >>

\* fetch_all_tasks has not been cached
NoCache == [filled |-> FALSE, tasks |-> << >>, assigned_to |-> << >>]

\* the variables of the audit dashboard when it is not in use
DashOff ==
    /\ cache = NoCache
    /\ views = << >>
    /\ writer = ""

\* no component has sent a query
TextOff ==
    /\ typed = << >>
    /\ sent = << >>

\* no write function has been called
NoCall ==
    [op |-> "", task_id |-> 0, args |-> << >>, ok |-> FALSE, before |-> "",
     result |-> FALSE]

\* the variables of the audit tasks when they are not in use
TasksOff ==
    /\ tasks = << >>
    /\ assigned_to = << >>
    /\ now = 0
    /\ last = NoCall

\* find_related_taxpayers has not been called
NoRelated == [tin |-> None, called |-> FALSE, status |-> "", value |-> << >>]

\* the variables of the related-taxpayer search when it is not in use
RelatedOff ==
    /\ flagged_by = << >>
    /\ related = NoRelated

Init ==
    /\ RelatedOff
    /\ TasksOff
    /\ TextOff
    /\ DashOff
    /\ messages = << >>
    /\ session_state_user_input = None
    /\ pc = "start"
    /\ user_input \in Inputs
    /\ intent = ""
    /\ params = EmptyParams
    /\ queries = << >>
    /\ response = NoResponse
    /\ viz_data = EmptyViz
    /\ raised = FALSE

\* main: intent, params = detect_intent(user_input)
Classify ==
    /\ pc = "start"
    /\ LET d == detect_intent(user_input)
       IN  /\ intent' = d.intent
           /\ params' = d.params
    /\ pc' = "classified"
    /\ UNCHANGED <<user_input, queries, response, viz_data, raised>>
    /\ UNCHANGED <<chatVars, relatedVars, taskVars, textVars, dashVars>>

\* a direct call generate_response(graph, intent, params, user_input); the
\* function never reads user_input
Call ==
    /\ pc = "start"
    /\ user_input = << >>
    /\ intent' \in IntentTags
    /\ params' \in ParamArgs
    /\ pc' = "called"
    /\ UNCHANGED <<user_input, queries, response, viz_data, raised>>
    /\ UNCHANGED <<chatVars, relatedVars, taskVars, textVars, dashVars>>

\* generate_response runs to its return or to the exception that leaves it
Respond ==
    /\ pc \in {"classified", "called"}
    /\ \E graph \in Graphs(intent) :
          /\ Consistent(graph)
          /\ LET r == generate_response(graph, intent, params)
             IN  /\ queries' = r.queries
                 /\ response' = r.response
                 /\ viz_data' = r.viz_data
                 /\ raised' = r.raised
    /\ pc' = IF pc = "classified" THEN "responded" ELSE "returned"
    /\ UNCHANGED <<user_input, intent, params>>
    /\ UNCHANGED <<chatVars, relatedVars, taskVars, textVars, dashVars>>

Next == Classify \/ Call \/ Respond

Spec == Init /\ [][Next]_vars

(***************************************************************************)
(* The chat session: every run of main() that st.chat_input hands a text   *)
(* appends the user turn, classifies and dispatches the text and appends   *)
(* the assistant turn.  An exception that leaves generate_response ends    *)
(* the run where it is; st.session_state keeps what was appended.          *)
(***************************************************************************)
MaxInputs == 2

\* the texts typed into the chat in a session
ChatInputs ==
    {DocExamples[1].input, DocExamples[4].input, <<"h","e","l","l","o">>}

\* the number of inputs the session has processed
Submitted ==
    Cardinality({i \in 1..Len(messages) : messages[i].role = "user"})

InitChat ==
    /\ RelatedOff
    /\ TasksOff
    /\ TextOff
    /\ DashOff
    /\ messages = << >>
    /\ session_state_user_input = None
    /\ pc = "start"
    /\ user_input = << >>
    /\ intent = ""
    /\ params = EmptyParams
    /\ queries = << >>
    /\ response = NoResponse
    /\ viz_data = EmptyViz
    /\ raised = FALSE

\* one run of main() with a text from st.chat_input
ProcessInput ==
    /\ Submitted < MaxInputs
    /\ \E text \in ChatInputs :
       \E d \in {detect_intent(text)} :
       \E graph \in {g \in Graphs(d.intent) : Consistent(g)} :
       \E r \in {generate_response(graph, d.intent, d.params)} :
          LET user == [role |-> "user", content |-> text]
              assistant == [role |-> "assistant", content |-> r.response]
          IN  /\ user_input' = text
              /\ intent' = d.intent
              /\ params' = d.params
              /\ queries' = r.queries
              /\ response' = r.response
              /\ viz_data' = r.viz_data
              /\ raised' = r.raised
              /\ messages' = IF r.raised THEN Append(messages, user)
                             ELSE messages \o <<user, assistant>>
    /\ pc' = "responded"
    /\ UNCHANGED <<session_state_user_input, relatedVars, taskVars, textVars, dashVars>>

\* the texts of the quick-template buttons of the sidebar
Templates == {
    <<"S","e","a","r","c","h"," ","1","2","3","4","5","6","7","8","9","0">>,
    <<"S","i","m","i","l","a","r"," ","t","o"," ","1","2","3","4","5","6","7","8","9","0">>,
    <<"H","i","g","h"," ","i","m","p","a","c","t"," ","c","a","s","e","s">>,
    <<"S","e","c","t","o","r"," ","M","a","n","u","f","a","c","t","u","r","i","n","g">>,
    <<"R","e","g","i","o","n"," ","K","a","m","p","a","l","a">> }

\* a click on a quick-template button and the rerun it starts: the text is
\* stored under the key user_input of the session state; st.chat_input has
\* no key and returns None in the rerun, so nothing is processed
ClickTemplate ==
    /\ \E template \in Templates : session_state_user_input' = template
    /\ UNCHANGED <<requestVars, messages, relatedVars, taskVars, textVars, dashVars>>

NextChat == ProcessInput \/ ClickTemplate

SpecChat == InitChat /\ [][NextChat]_vars

(***************************************************************************)
(* The query of find_related_taxpayers, evaluated over the FLAGGED_BY      *)
(* edges of a small store.  A similarity score is counted in tenths of a   *)
(* percent (16.7 is 167).                                                  *)
(***************************************************************************)
MaxTaxpayers == 3

MaxFlags == 3

\* the denominator of the similarity score
RiskCategories == 18

\* the TIN of the i-th Taxpayer node; TinOf(0) is the TIN of no node
TinOf(i) == <<"T">> \o [k \in 1..i |-> "I"]

Tins == {TinOf(i) : i \in 1..MaxTaxpayers}

Flags == {RiskIdOf(i) : i \in 1..MaxFlags}

\* ROUND(x, 1) of x = num/den >= 0, in tenths: the nearest tenth, half up
Round1(num, den) == (20 * num + den) \div (2 * den)

\* the score with the fraction cut off after the first decimal
SimilarityScore_truncated(shared_risk_count) ==
    (1000 * shared_risk_count) \div RiskCategories

\* ROUND(100.0 * shared_risk_count / 18, 1)
SimilarityScore(shared_risk_count) ==
    Round1(100 * shared_risk_count, RiskCategories)

\* COUNT(DISTINCT rf) of the group t2: the flags rf with
\* (t {TIN: $tin})-[:FLAGGED_BY]->(rf)<-[:FLAGGED_BY]-(t2)
SharedRiskCount(edges, tin, t2) ==
    IF tin \in DOMAIN edges
    THEN Cardinality(edges[tin] \cap edges[t2]) ELSE 0

\* the groups t2 of the WITH clause: the two MATCHes found a shared flag and
\* t2.TIN <> $tin
RelatedGroups(edges, tin) ==
    {t2 \in DOMAIN edges :
        t2 # tin /\ SharedRiskCount(edges, tin, t2) > 0}

\* the map returned for the group t2
RelatedRow(edges, tin, t2) ==
    [tin |-> t2,
     sharedRisks |-> SharedRiskCount(edges, tin, t2),
     similarityScore |-> SimilarityScore(SharedRiskCount(edges, tin, t2))]

\* ORDER BY shared_risk_count DESC: every arrangement of the groups in
\* which no group comes before one with a larger count
RelatedOrders(edges, tin) ==
    LET groups == RelatedGroups(edges, tin)
        n == Cardinality(groups)
    IN  {o \in [1..n -> groups] :
            /\ \A i, j \in 1..n : i # j => o[i] # o[j]
            /\ \A i, j \in 1..n :
                  i < j => SharedRiskCount(edges, tin, o[i])
                               >= SharedRiskCount(edges, tin, o[j])}

\* what graph.run can answer to the query, before its LIMIT
RelatedAnswers(edges, tin) ==
    {StoreError} \cup
    {[status |-> "ok",
      data |-> [i \in 1..Len(o) |-> RelatedRow(edges, tin, o[i])]] :
        o \in RelatedOrders(edges, tin)}

InitRelated ==
    /\ pc = "off"
    /\ user_input = << >>
    /\ intent = ""
    /\ params = EmptyParams
    /\ queries = << >>
    /\ response = NoResponse
    /\ viz_data = EmptyViz
    /\ raised = FALSE
    /\ messages = << >>
    /\ session_state_user_input = None
    /\ TasksOff
    /\ TextOff
    /\ DashOff
    /\ flagged_by \in [Tins -> SUBSET Flags]
    /\ related = NoRelated

\* one call find_related_taxpayers(graph, tin)
FindRelated ==
    /\ ~related.called
    /\ \E tin \in Tins \cup {TinOf(0)} :
       \E answer \in RelatedAnswers(flagged_by, tin) :
          LET graph == [taxpayer |-> StoreError, rows |-> answer,
                        pathway |-> StoreError]
              call == find_related_taxpayers(graph, tin)
          IN  related' = [tin |-> tin, called |-> TRUE,
                          status |-> call.query.status, value |-> call.value]
    /\ UNCHANGED <<requestVars, chatVars, flagged_by, taskVars, textVars, dashVars>>

NextRelated == FindRelated

SpecRelated == InitRelated /\ [][NextRelated]_vars

(***************************************************************************)
(* The write operations on audit tasks.  Each function runs one Cypher     *)
(* query in a transaction of its own (update_task_status may run a second  *)
(* one through add_task_note), catches every exception and returns         *)
(* bool(result), whether the query returned a row.  A graph is the record  *)
(* [tasks, assigned_to]; ok tells whether graph.run answered rather than   *)
(* raised.  A str is a sequence of pieces, '' is << >>.                    *)
(***************************************************************************)
MaxTasks == 2

MaxOps == 3

\* the AuditorIDs of the Auditor nodes of the store
Auditors == {"AUD001", "AUD002"}

\* the auditor ids handed to the functions: one names no Auditor node
AuditorArgs == Auditors \cup {"AUD999"}

\* a property that a node or an edge does not have
NullId == "null"

NullDate == 0

Statuses ==
    {"Assigned", "In Progress", "Under Review", "Completed", "On Hold"}

ProgressArgs == {-5, 0, 40, 100, 150}

NoteArgs == {<< >>, <<"n">>}

\* the task ids handed to the functions: 0 and the ids not yet given name
\* no AuditTask node
TaskIdArgs == 0..MaxTasks

\* the task_data of a new task: an existing or a missing taxpayer and
\* auditor, and risk ids that match one RiskFlag node or none
TaskData ==
    [taxpayer_tin : {TinOf(0), TinOf(1)},
     auditor_id : AuditorArgs,
     notes : NoteArgs,
     risk_ids : {{}, {RiskIdOf(0)}, {RiskIdOf(1)}}]

\* datetime() during the operation in progress
datetime == now + 1

\* the rows of MATCH (task:AuditTask {TaskID: $task_id})
TaskExists(graph, task_id) == task_id \in 1..Len(graph.tasks)

\* CASE WHEN task.Notes IS NULL THEN $note ELSE task.Notes + '\n' + $note
AppendedNotes(Notes, note) ==
    IF Notes = None THEN note ELSE Notes \o <<"\n">> \o note

\* a call that changed nothing and returned False
Failed(graph) == [graph |-> graph, result |-> FALSE]

create_audit_task(graph, task_data, ok) ==
    LET matched == /\ task_data.taxpayer_tin \in Tins
                   /\ task_data.auditor_id \in Auditors
        task == [Status |-> "Assigned", ProgressPercent |-> 0,
                 CompletedDate |-> NullDate, Notes |-> task_data.notes]
        edge == [auditor |-> task_data.auditor_id, ReassignedFrom |-> NullId]
        \* one row for every RiskFlag node with rf.RiskID IN $risk_ids
        result == Cardinality(task_data.risk_ids \cap Flags)
    IN  IF ~ok \/ ~matched THEN Failed(graph)
        ELSE [graph |-> [tasks |-> Append(graph.tasks, task),
                         assigned_to |-> Append(graph.assigned_to, <<edge>>)],
              result |-> result > 0]

\* add_task_note that stores the new note in the place of the old notes
add_task_note_overwrite(graph, task_id, note, ok) ==
    IF ~ok \/ ~TaskExists(graph, task_id) THEN Failed(graph)
    ELSE [graph |-> [graph EXCEPT !.tasks[task_id].Notes =
                        <<"[ts] ">> \o note],
          result |-> TRUE]

add_task_note(graph, task_id, note, ok) ==
    IF ~ok \/ ~TaskExists(graph, task_id) THEN Failed(graph)
    ELSE [graph |-> [graph EXCEPT !.tasks[task_id].Notes =
                        AppendedNotes(@, <<"[ts] ">> \o note)],
          result |-> TRUE]

\* update_task_status that refuses to leave the status Completed
update_task_status_guarded(graph, task_id, new_status, notes, ok, ok_note) ==
    IF ~ok \/ ~TaskExists(graph, task_id) THEN Failed(graph)
    ELSE IF graph.tasks[task_id].Status = "Completed" THEN Failed(graph)
    ELSE [graph |-> [graph EXCEPT !.tasks[task_id].Status = new_status,
                                  !.tasks[task_id].CompletedDate = datetime],
          result |-> TRUE]

\* the task variable stays bound when the OPTIONAL MATCH on Status finds
\* nothing, so SET task.CompletedDate runs for every new status; the
\* OPTIONAL MATCH of an ASSIGNED_TO edge from the task to itself finds no
\* edge and its SET changes nothing
update_task_status(graph, task_id, new_status, notes, ok, ok_note) ==
    LET set == IF TaskExists(graph, task_id)
               THEN [graph EXCEPT !.tasks[task_id].Status = new_status,
                                  !.tasks[task_id].CompletedDate = datetime]
               ELSE graph
        note == <<"Status: ", new_status, " - ">> \o notes
    IN  IF ~ok THEN Failed(graph)
        ELSE [graph |-> IF notes # << >>
                        THEN add_task_note(set, task_id, note, ok_note).graph
                        ELSE set,
              result |-> TaskExists(graph, task_id)]

\* update_task_progress that stores the percentage as given
update_task_progress_unclamped(graph, task_id, progress_percent, ok) ==
    IF ~ok \/ ~TaskExists(graph, task_id) THEN Failed(graph)
    ELSE [graph |-> [graph EXCEPT !.tasks[task_id].ProgressPercent =
                        progress_percent],
          result |-> TRUE]

update_task_progress(graph, task_id, progress_percent, ok) ==
    LET progress == SetMax({0, SetMin({100, progress_percent})})
    IN  IF ~ok \/ ~TaskExists(graph, task_id) THEN Failed(graph)
        ELSE [graph |-> [graph EXCEPT !.tasks[task_id].ProgressPercent =
                            progress],
              result |-> TRUE]

\* reassign_task without DELETE old_assignment
reassign_task_keep_old(graph, task_id, new_auditor_id, ok) ==
    LET old == graph.assigned_to[task_id]
        new == [i \in 1..Len(old) |->
                   [auditor |-> new_auditor_id,
                    ReassignedFrom |-> old[i].auditor]]
    IN  IF ~ok \/ ~TaskExists(graph, task_id) THEN Failed(graph)
        ELSE IF new_auditor_id \notin Auditors \/ old = << >>
        THEN Failed(graph)
        ELSE [graph |-> [graph EXCEPT !.assigned_to[task_id] = old \o new],
              result |-> TRUE]

\* one row for every ASSIGNED_TO edge into the task when the new auditor
\* exists: each row deletes its edge and creates one from the new auditor
reassign_task(graph, task_id, new_auditor_id, ok) ==
    LET old == graph.assigned_to[task_id]
        new == [i \in 1..Len(old) |->
                   [auditor |-> new_auditor_id,
                    ReassignedFrom |-> old[i].auditor]]
    IN  IF ~ok \/ ~TaskExists(graph, task_id) THEN Failed(graph)
        ELSE IF new_auditor_id \notin Auditors \/ old = << >>
        THEN Failed(graph)
        ELSE [graph |-> [graph EXCEPT !.assigned_to[task_id] = new],
              result |-> TRUE]

complete_task(graph, task_id, completion_notes, ok) ==
    IF ~ok \/ ~TaskExists(graph, task_id) THEN Failed(graph)
    ELSE [graph |-> [graph EXCEPT
                        !.tasks[task_id].Status = "Completed",
                        !.tasks[task_id].CompletedDate = datetime,
                        !.tasks[task_id].ProgressPercent = 100,
                        !.tasks[task_id].Notes =
                            AppendedNotes(@, <<"[COMPLETED ts] ">>
                                                 \o completion_notes)],
          result |-> TRUE]

\* the store as the functions see it
Graph == [tasks |-> tasks, assigned_to |-> assigned_to]

\* the status of the task before the call, '' when there is no such task
StatusOf(task_id) ==
    IF TaskExists(Graph, task_id) THEN tasks[task_id].Status ELSE ""

\* the call op(task_id, args) has returned r; ok: graph.run did not raise
Returned(op, task_id, args, ok, r) ==
    /\ tasks' = r.graph.tasks
    /\ assigned_to' = r.graph.assigned_to
    /\ last' = [op |-> op, task_id |-> task_id, args |-> args, ok |-> ok,
                before |-> StatusOf(task_id), result |-> r.result]
    /\ now' = now + 1
    /\ UNCHANGED <<requestVars, chatVars, relatedVars, textVars, dashVars>>

InitTasks ==
    /\ RelatedOff
    /\ TasksOff
    /\ TextOff
    /\ DashOff
    /\ messages = << >>
    /\ session_state_user_input = None
    /\ pc = "off"
    /\ user_input = << >>
    /\ intent = ""
    /\ params = EmptyParams
    /\ queries = << >>
    /\ response = NoResponse
    /\ viz_data = EmptyViz
    /\ raised = FALSE

Create ==
    /\ now < MaxOps
    /\ Len(tasks) < MaxTasks
    /\ \E task_data \in TaskData, ok \in BOOLEAN :
          Returned("create_audit_task", Len(tasks) + 1, task_data, ok,
                   create_audit_task(Graph, task_data, ok))

UpdateStatus ==
    /\ now < MaxOps
    /\ \E task_id \in TaskIdArgs, new_status \in Statuses,
          notes \in NoteArgs, ok \in BOOLEAN, ok_note \in BOOLEAN :
          Returned("update_task_status", task_id,
                   [new_status |-> new_status, notes |-> notes], ok,
                   update_task_status(Graph, task_id, new_status, notes, ok,
                                      ok_note))

UpdateProgress ==
    /\ now < MaxOps
    /\ \E task_id \in TaskIdArgs, progress_percent \in ProgressArgs,
          ok \in BOOLEAN :
          Returned("update_task_progress", task_id,
                   [progress_percent |-> progress_percent], ok,
                   update_task_progress(Graph, task_id, progress_percent, ok))

Reassign ==
    /\ now < MaxOps
    /\ \E task_id \in TaskIdArgs, new_auditor_id \in AuditorArgs,
          ok \in BOOLEAN :
          Returned("reassign_task", task_id,
                   [new_auditor_id |-> new_auditor_id], ok,
                   reassign_task(Graph, task_id, new_auditor_id, ok))

AddNote ==
    /\ now < MaxOps
    /\ \E task_id \in TaskIdArgs, note \in NoteArgs, ok \in BOOLEAN :
          Returned("add_task_note", task_id, [note |-> note], ok,
                   add_task_note(Graph, task_id, note, ok))

Complete ==
    /\ now < MaxOps
    /\ \E task_id \in TaskIdArgs, completion_notes \in NoteArgs,
          ok \in BOOLEAN :
          Returned("complete_task", task_id,
                   [completion_notes |-> completion_notes], ok,
                   complete_task(Graph, task_id, completion_notes, ok))

NextTasks ==
    Create \/ UpdateStatus \/ UpdateProgress \/ Reassign \/ AddNote
        \/ Complete

SpecTasks == InitTasks /\ [][NextTasks]_vars

(***************************************************************************)
(* The audit dashboard (main).  Every browser session runs main against    *)
(* the same store; st.cache_data is shared by the sessions of the process. *)
(* A run of main lists the tasks through the cached fetch_all_tasks and    *)
(* shows the details of the selected task through the uncached             *)
(* fetch_task_details; a button of the page calls one write function with  *)
(* the selected TaskID and clears the cache when the function returned     *)
(* True.  The reads are taken to succeed.                                  *)
(***************************************************************************)
Sessions == {"A", "B"}

\* the page shows no task
NoView == [task_id |-> 0, shown |-> << >>]

\* the values of the widgets of the page
SliderArgs == {40, 100}

ReasonArgs == {<< >>, <<"n">>}

\* the task_data of the new-task form: the TIN is typed and not empty, the
\* auditor is one of fetch_auditor_list, the risk ids may match no RiskFlag
FormData ==
    [taxpayer_tin : {TinOf(0), TinOf(1)},
     auditor_id : Auditors,
     notes : {<< >>},
     risk_ids : {{}, {RiskIdOf(1)}}]

\* st.cache_data: the stored return value while there is one
fetch_all_tasks(graph) ==
    IF cache.filled THEN [tasks |-> cache.tasks,
                          assigned_to |-> cache.assigned_to]
    ELSE graph

\* st.cache_data.clear() after a write that returned True
ClearedCache(result) == IF result THEN NoCache ELSE cache

\* a handler that refuses the write when the page is older than the store
Submit_versioned(view, graph, r) ==
    IF view.shown # <<[task |-> graph.tasks[view.task_id],
                       assigned_to |-> graph.assigned_to[view.task_id]]>>
    THEN Failed(graph)
    ELSE r

\* a button handler hands the selected TaskID and the widget values to the
\* write function: what the page showed is not part of the call
Submit(view, graph, r) == r

InitDashboard ==
    /\ RelatedOff
    /\ TasksOff
    /\ TextOff
    /\ cache = NoCache
    /\ views = [s \in Sessions |-> NoView]
    /\ writer = ""
    /\ messages = << >>
    /\ session_state_user_input = None
    /\ pc = "off"
    /\ user_input = << >>
    /\ intent = ""
    /\ params = EmptyParams
    /\ queries = << >>
    /\ response = NoResponse
    /\ viz_data = EmptyViz
    /\ raised = FALSE

\* one run of main in session s up to the details of the selected task
Render(s) ==
    /\ \E listed \in {fetch_all_tasks(Graph)} :
          /\ cache' = [filled |-> TRUE, tasks |-> listed.tasks,
                       assigned_to |-> listed.assigned_to]
          /\ IF listed.tasks = << >>
             THEN views' = [views EXCEPT ![s] = NoView]
             ELSE \E selected_task_id \in 1..Len(listed.tasks) :
                     views' = [views EXCEPT ![s] =
                        [task_id |-> selected_task_id,
                         shown |-> <<[task |-> tasks[selected_task_id],
                                      assigned_to |->
                                          assigned_to[selected_task_id]]>>]]
    /\ UNCHANGED <<requestVars, chatVars, relatedVars, taskVars, textVars,
                   writer>>

\* the entry of fetch_all_tasks is older than ttl
Expire ==
    /\ cache.filled
    /\ cache' = NoCache
    /\ UNCHANGED <<requestVars, chatVars, relatedVars, taskVars, textVars,
                   views, writer>>

\* the button of session s has called op(task_id, args), which returned r
Handled(s, op, task_id, args, ok, r) ==
    /\ tasks' = r.graph.tasks
    /\ assigned_to' = r.graph.assigned_to
    /\ last' = [op |-> op, task_id |-> task_id, args |-> args, ok |-> ok,
                before |-> StatusOf(task_id), result |-> r.result]
    /\ now' = now + 1
    /\ cache' = ClearedCache(r.result)
    /\ writer' = s
    /\ UNCHANGED <<requestVars, chatVars, relatedVars, textVars, views>>

NewTask(s) ==
    /\ now < MaxOps
    /\ Len(tasks) < MaxTasks
    /\ \E task_data \in FormData, ok \in BOOLEAN :
          Handled(s, "create_audit_task", Len(tasks) + 1, task_data, ok,
                  create_audit_task(Graph, task_data, ok))

ManageStatus(s) ==
    /\ now < MaxOps
    /\ views[s] # NoView
    /\ \E new_status \in Statuses, reason \in ReasonArgs,
          ok \in BOOLEAN, ok_note \in BOOLEAN :
          Handled(s, "update_task_status", views[s].task_id,
                  [new_status |-> new_status, notes |-> reason], ok,
                  Submit(views[s], Graph,
                         update_task_status(Graph, views[s].task_id,
                                            new_status, reason, ok, ok_note)))

ManageProgress(s) ==
    /\ now < MaxOps
    /\ views[s] # NoView
    /\ \E progress \in SliderArgs, ok \in BOOLEAN :
          Handled(s, "update_task_progress", views[s].task_id,
                  [progress_percent |-> progress], ok,
                  Submit(views[s], Graph,
                         update_task_progress(Graph, views[s].task_id,
                                              progress, ok)))

ManageReassign(s) ==
    /\ now < MaxOps
    /\ views[s] # NoView
    /\ \E new_auditor \in Auditors, ok \in BOOLEAN :
          Handled(s, "reassign_task", views[s].task_id,
                  [new_auditor_id |-> new_auditor], ok,
                  Submit(views[s], Graph,
                         reassign_task(Graph, views[s].task_id, new_auditor,
                                       ok)))

ManageAddNote(s) ==
    /\ now < MaxOps
    /\ views[s] # NoView
    /\ \E note \in ReasonArgs, ok \in BOOLEAN :
          Handled(s, "add_task_note", views[s].task_id, [note |-> note], ok,
                  Submit(views[s], Graph,
                         add_task_note(Graph, views[s].task_id, note, ok)))

ManageComplete(s) ==
    /\ now < MaxOps
    /\ views[s] # NoView
    /\ \E completion_notes \in ReasonArgs, ok \in BOOLEAN :
          Handled(s, "complete_task", views[s].task_id,
                  [completion_notes |-> completion_notes], ok,
                  Submit(views[s], Graph,
                         complete_task(Graph, views[s].task_id,
                                       completion_notes, ok)))

NextDashboard ==
    \/ Expire
    \/ \E s \in Sessions :
          \/ Render(s)
          \/ NewTask(s)
          \/ ManageStatus(s)
          \/ ManageProgress(s)
          \/ ManageReassign(s)
          \/ ManageAddNote(s)
          \/ ManageComplete(s)

SpecDashboard == InitDashboard /\ [][NextDashboard]_vars

(***************************************************************************)
(* The text of the queries.  A query text is a sequence of pieces: a       *)
(* literal part of the source is one piece, a character that comes from a  *)
(* value is a piece of its own.  render_taxveritas builds its three texts  *)
(* with f-strings around the TIN typed into st.text_input;                 *)
(* search_taxpayer_by_tin sends a constant text and binds the TIN as the   *)
(* parameter $tin.                                                         *)
(***************************************************************************)
\* the values typed into the TIN box: empty, too short, two TINs and two
\* texts of ten characters that are not TINs
TinInputs == {
    << >>,
    <<"1","2","3">>,
    <<"1","0","0","1","7","6","9","1","1","2">>,
    <<"1","2","3","4","5","6","7","8","9","0">>,
    <<"'"," ","O","R"," ","1","=","1","/","/">>,
    <<"x","'","}",")"," ","/","/","a","b","c">> }

\* the length render_taxveritas requires of a TIN
TinLength == 10

\* what execute_query answers: it raises, or returns 0..3 rows
RowAnswers ==
    {[status |-> "error", rows |-> 0]}
    \cup {[status |-> "ok", rows |-> n] : n \in 0..3}

profile_query(tin_search) ==
    <<"MATCH (t:Taxpayer {TIN: '">> \o tin_search
        \o <<"'}) RETURN t.TIN as tin, t.Name as name, ...">>

filing_query(tin_search) ==
    <<"MATCH (t:Taxpayer {TIN: '">> \o tin_search
        \o <<"'})-[filed:FILED]->(ir:ITReturn) RETURN ... LIMIT 10">>

risk_query(tin_search) ==
    <<"MATCH (t:Taxpayer {TIN: '">> \o tin_search
        \o <<"'})-[flag:FLAGGED_BY]->(r:RiskFlag) RETURN ...">>

\* one call execute_query(graph, text)
Executed(name, text, answer) ==
    [name |-> name, text |-> text, params |-> << >>, rows |-> answer.rows,
     status |-> answer.status]

\* the queries of one run of render_taxveritas: none for a text that is
\* not 10 characters long, the profile query alone when it raises or finds
\* no taxpayer, else the filing query and the risk query as well
render_taxveritas(tin_search, profile, filing, risk) ==
    LET q1 == Executed("profile", profile_query(tin_search), profile)
        q2 == Executed("filing", filing_query(tin_search), filing)
        q3 == Executed("risk", risk_query(tin_search), risk)
    IN  IF tin_search = << >> \/ Len(tin_search) # TinLength THEN << >>
        ELSE IF profile.status = "error" \/ profile.rows = 0 THEN <<q1>>
        ELSE IF filing.status = "error" THEN <<q1, q2>>
        ELSE <<q1, q2, q3>>

\* the constant query text of search_taxpayer_by_tin
tin_query ==
    <<"MATCH (t:Taxpayer {TIN: $tin}) OPTIONAL MATCH ... RETURN ... LIMIT 1">>

InitText ==
    /\ RelatedOff
    /\ TasksOff
    /\ TextOff
    /\ DashOff
    /\ messages = << >>
    /\ session_state_user_input = None
    /\ pc = "off"
    /\ user_input = << >>
    /\ intent = ""
    /\ params = EmptyParams
    /\ queries = << >>
    /\ response = NoResponse
    /\ viz_data = EmptyViz
    /\ raised = FALSE

\* one run of render_taxveritas with a text in the TIN box
RenderTaxveritas ==
    /\ \E tin_search \in TinInputs :
       \E profile \in RowAnswers, filing \in RowAnswers, risk \in RowAnswers :
          /\ typed' = tin_search
          /\ sent' = render_taxveritas(tin_search, profile, filing, risk)
    /\ UNCHANGED <<requestVars, chatVars, relatedVars, taskVars, dashVars>>

\* one call of search_taxpayer_by_tin from the chatbot
SearchByTin ==
    /\ \E tin \in TinInputs :
       \E answer \in TaxpayerAnswers :
          LET graph == [taxpayer |-> answer, rows |-> StoreError,
                        pathway |-> StoreError]
              q == search_taxpayer_by_tin(graph, tin).query
          IN  /\ typed' = tin
              /\ sent' = <<[name |-> q.fn, text |-> tin_query,
                            params |-> q.args, rows |-> q.rows,
                            status |-> q.status]>>
    /\ UNCHANGED <<requestVars, chatVars, relatedVars, taskVars, dashVars>>

NextText == RenderTaxveritas \/ SearchByTin

SpecText == InitText /\ [][NextText]_vars

(***************************************************************************)
(* Properties of detect_intent.                                            *)
(***************************************************************************)
\* the priority order of the intent definitions
IntentOrder ==
    <<"search_tin", "search_name", "risk_analysis", "related", "pathway",
      "sector_analysis", "high_impact">>

ConfigOf(tag) ==
    intents[CHOOSE d \in 1..Len(intents) : intents[d].intent = tag]

\* the text as typed, folded to lower case and trimmed
Folded(s) == Strip([i \in 1..Len(s) |-> LowerChar(s[i])])

\* positions in IntentOrder of the definitions with a pattern that matches s
PatternHits(s) ==
    {o \in 1..Len(IntentOrder) :
        \E p \in 1..Len(ConfigOf(IntentOrder[o]).patterns) :
            re_search(ConfigOf(IntentOrder[o]).patterns[p], s).matched}

\* positions in IntentOrder of the definitions with a keyword contained in s
KeywordHits(s) ==
    {o \in 1..Len(IntentOrder) :
        \E k \in 1..Len(ConfigOf(IntentOrder[o]).keywords) :
            Contains(s, ConfigOf(IntentOrder[o]).keywords[k])}

\* the group captured by the first matching pattern of the definition tag
FirstGroup(tag, s) ==
    LET ps == ConfigOf(tag).patterns
        p == SetMin({q \in 1..Len(ps) : re_search(ps[q], s).matched})
    IN  re_search(ps[p], s).group

\* C1: whenever a pattern of some definition matches the input, the intent
\* returned is the first definition in priority order that has a matching
\* pattern, with that pattern's captured group, even when the keywords of
\* an earlier definition occur in the input.
C1_PatternStageBeforeKeywordStage ==
    pc = "classified" =>
        LET s == Folded(user_input)
        IN  PatternHits(s) # {} =>
               LET tag == IntentOrder[SetMin(PatternHits(s))]
               IN  /\ intent = tag
                   /\ params = Extracted(FirstGroup(tag, s))

\* C2: an input that matches no pattern and contains keywords of two or
\* more definitions is classified as the earliest of these definitions in
\* the priority order, with no extracted parameter.
C2_EarliestKeywordWins ==
    pc = "classified" =>
        LET s == Folded(user_input)
        IN  (PatternHits(s) = {} /\ Cardinality(KeywordHits(s)) >= 2) =>
               /\ intent = IntentOrder[SetMin(KeywordHits(s))]
               /\ params = EmptyParams
               /\ Get(params, None) = None

\* an input without pattern match, with keywords of search_name and of a
\* later definition but of no earlier one, has been classified
C2_Witness ==
    /\ pc = "classified"
    /\ PatternHits(Folded(user_input)) = {}
    /\ Cardinality(KeywordHits(Folded(user_input))) >= 2
    /\ SetMin(KeywordHits(Folded(user_input))) = 2
    /\ intent = "search_name"

\* C3: detect_intent returns for every input, the empty one included, one
\* of the eight tags, and it returns help exactly when no pattern and no
\* keyword of any definition matches the normalized input.
C3_TotalAndHelpIsDefault ==
    pc = "classified" =>
        /\ intent \in {"search_tin", "search_name", "risk_analysis",
                       "related", "pathway", "sector_analysis", "high_impact",
                       "help"}
        /\ intent = "help" <=>
              /\ PatternHits(Folded(user_input)) = {}
              /\ KeywordHits(Folded(user_input)) = {}

\* the empty input has been classified as help
C3_Witness ==
    /\ pc = "classified"
    /\ user_input = << >>
    /\ intent = "help"
    /\ params = EmptyParams

\* s begins with prefix
StartsWith(s, prefix) == MatchAt(s, prefix, 1)

\* C4: every row of the table of intent detection examples is classified
\* as the table says, an input 'find <words>' is classified search_name and
\* an input 'similar to tin <id>' is classified related.
C4_DocumentedExamplesClassified ==
    pc = "classified" =>
        /\ \A i \in 1..Len(DocExamples) :
              user_input = DocExamples[i].input
                  => intent = DocExamples[i].intent
        /\ (/\ StartsWith(Folded(user_input), <<"f","i","n","d"," ">>)
            /\ Len(Folded(user_input)) > 5
            /\ IsWord(Folded(user_input)[6]))
              => intent = "search_name"
        /\ (\E id \in Identifiers :
               Folded(user_input) = Folded(SimilarToTinForm \o id))
              => intent = "related"

\* C5: 'Search TIN <id>' is routed to the identifier lookup and the TIN
\* bound into the store query is <id>.
C5_SearchTinFormBindsId ==
    \A id \in Identifiers :
        (pc = "responded" /\ user_input = SearchTinForm \o id) =>
            /\ intent = "search_tin"
            /\ Len(queries) = 1
            /\ queries[1].fn = "search_taxpayer_by_tin"
            /\ queries[1].args \in {<<id>>, <<Folded(id)>>}

\* C6: for 'Similar <id>' and 'Evidence pathway <id>' the extracted
\* parameter, and so the TIN bound into the related-taxpayer or pathway
\* query, is the whole token <id>.
C6_WholeTokenExtracted ==
    \A id \in Identifiers :
        user_input \in {SimilarForm \o id, EvidencePathwayForm \o id} =>
            /\ pc = "classified" => Get(params, None) \in {id, Folded(id)}
            /\ pc = "responded" =>
                  /\ queries # << >>
                  /\ queries[1].args[1] \in {id, Folded(id)}

UpperChar(c) ==
    CASE c = "a" -> "A" [] c = "b" -> "B" [] c = "c" -> "C" [] c = "d" -> "D"
      [] c = "e" -> "E" [] c = "f" -> "F" [] c = "g" -> "G" [] c = "h" -> "H"
      [] c = "i" -> "I" [] c = "j" -> "J" [] c = "k" -> "K" [] c = "l" -> "L"
      [] c = "m" -> "M" [] c = "n" -> "N" [] c = "o" -> "O" [] c = "p" -> "P"
      [] c = "q" -> "Q" [] c = "r" -> "R" [] c = "s" -> "S" [] c = "t" -> "T"
      [] c = "u" -> "U" [] c = "v" -> "V" [] c = "w" -> "W" [] c = "x" -> "X"
      [] c = "y" -> "Y" [] c = "z" -> "Z" [] OTHER -> c

Uppered(s) == [i \in 1..Len(s) |-> UpperChar(s[i])]

Lowered(s) == [i \in 1..Len(s) |-> LowerChar(s[i])]

\* texts that differ from s in letter case or surrounding whitespace only
Variants(s) ==
    {Uppered(s), Lowered(s), <<" ">> \o s, s \o <<" ", "\n">>,
     <<"\t">> \o Uppered(s) \o <<" ">>}

\* C7: inputs that differ only in letter case or surrounding whitespace get
\* the same intent and the same extracted parameter, and an extracted
\* parameter is a piece of the lowercased text, never of the original
\* casing.
C7_CaseAndSpaceInsensitive ==
    pc = "classified" =>
        /\ \A v \in Variants(user_input) :
              detect_intent(v) = [intent |-> intent, params |-> params]
        /\ Get(params, None) # None =>
              /\ Get(params, None) = Lowered(Get(params, None))
              /\ Contains(Folded(user_input), Get(params, None))

\* an input holding the token Ab1 has been classified with the extracted
\* parameter ab1
C7_Witness ==
    /\ pc = "classified"
    /\ Contains(user_input, <<"A","b","1">>)
    /\ Get(params, None) = <<"a","b","1">>

(***************************************************************************)
(* Properties of generate_response.                                        *)
(***************************************************************************)
\* generate_response has returned or raised
Done == pc \in {"responded", "returned"}

\* no parameter, or an empty one
Missing(v) == v = None \/ v = << >>

PromptTexts ==
    {"Please provide a TIN number to search",
     "Please provide a TIN to find related taxpayers",
     "Please provide a TIN"}

NotFoundTexts ==
    {"Taxpayer with TIN not found",
     "No taxpayers found with name containing",
     "No related taxpayers found",
     "No evidence pathway found",
     "No high-impact cases found",
     "No data available for sector"}

ResultTypes ==
    {"taxpayer", "search_results", "related", "pathway", "cases", "sector"}

\* C8 as stated: for each of the five intents that need a parameter, a
\* missing or empty parameter gives a message asking for the value, an
\* empty payload and no store query.
C8_MissingParameterPromptsForAll ==
    (/\ Done
     /\ intent \in {"search_tin", "search_name", "related", "pathway",
                    "sector_analysis"}
     /\ Missing(Get(params, None))) =>
        /\ ~raised
        /\ queries = << >>
        /\ viz_data = EmptyViz
        /\ response.text \in PromptTexts

\* C8 as amended: search_tin, related and pathway answer a missing or empty
\* parameter with a prompt, an empty payload and no store query;
\* search_name and sector_analysis have no such check and always issue
\* their one query, with '' or 'Manufacturing' in the place of an absent
\* parameter.
C8_MissingParameterPrompts ==
    (Done /\ Missing(Get(params, None))) =>
        /\ intent \in {"search_tin", "related", "pathway"} =>
              /\ ~raised
              /\ queries = << >>
              /\ viz_data = EmptyViz
              /\ response.text \in PromptTexts
        /\ intent \in {"search_name", "sector_analysis"} =>
              /\ Len(queries) = 1
              /\ response.text \notin PromptTexts
              /\ ~params.has =>
                    queries[1].args =
                        IF intent = "search_name" THEN << << >> >>
                        ELSE << <<"M","a","n","u","f","a","c","t","u","r",
                                  "i","n","g">> >>

\* generate_response('search_tin', {'extracted_value': ''}) has returned
\* the prompt without a query
C8_Witness ==
    /\ pc = "returned"
    /\ intent = "search_tin"
    /\ params = Extracted(<< >>)
    /\ queries = << >>
    /\ response.text = "Please provide a TIN number to search"

\* C9: when the store answers zero rows generate_response returns a
\* not-found message with an empty payload, and when it answers one or
\* more rows generate_response returns a payload tagged with a result type;
\* no exception in either case.
C9_RowsDecideOutcome ==
    (Done /\ queries # << >> /\ queries[Len(queries)].status = "ok") =>
        /\ ~raised
        /\ queries[Len(queries)].rows = 0 =>
              /\ viz_data = EmptyViz
              /\ response.text \in NotFoundTexts
        /\ queries[Len(queries)].rows >= 1 =>
              viz_data.type \in ResultTypes

\* a graph.run of this dispatch raised
StoreFailed == \E i \in 1..Len(queries) : queries[i].status = "error"

\* the store in which every query answers zero rows
ZeroRowsGraph == [taxpayer |-> NoRows, rows |-> NoRows, pathway |-> NoRows]

C11_GenerateResponseNeverRaises == Done => ~raised

\* the tier the thresholds 10, 5 and 2 give to a count of n risk flags
TierOf(n) ==
    IF n >= 10 THEN "CRITICAL - Immediate Audit"
    ELSE IF 5 <= n /\ n <= 9 THEN "HIGH PRIORITY - Schedule Audit"
    ELSE IF 2 <= n /\ n <= 4 THEN "MEDIUM - Review Risk Profile"
    ELSE "LOW - Routine Monitoring"

TierRank(action) ==
    CASE action = "LOW - Routine Monitoring" -> 0
      [] action = "MEDIUM - Review Risk Profile" -> 1
      [] action = "HIGH PRIORITY - Schedule Audit" -> 2
      [] action = "CRITICAL - Immediate Audit" -> 3

Shown == IF viz_data.type \in {"search_results", "related", "cases", "sector"}
         THEN Len(viz_data.data) ELSE 0

C14_AtMostOneQuery ==
    Done =>
        /\ Len(queries) <= 1
        /\ (intent = "help" \/ Missing(Get(params, None))) => queries = << >>

\* C14 as amended: every dispatch issues at most one query, except the
\* evidence pathway, which issues the identifier lookup and then, when the
\* lookup finds a taxpayer with a risk record, the pathway query; help and
\* risk_analysis issue none, and search_tin, related and pathway issue none
\* when the parameter is missing.
C14_QueryCount ==
    Done =>
        /\ Len(queries) <= IF intent = "pathway" THEN 2 ELSE 1
        /\ intent \in {"help", "risk_analysis"} => queries = << >>
        /\ (Missing(Get(params, None))
            /\ intent \in {"search_tin", "related", "pathway"}) =>
              queries = << >>
        /\ Len(queries) = 2 =>
              /\ queries[1].fn = "search_taxpayer_by_tin"
              /\ queries[1].rows = 1
              /\ queries[2].fn = "get_risk_pathway"

\* an evidence pathway has been answered after two queries
C14_Witness ==
    /\ Done
    /\ intent = "pathway"
    /\ Len(queries) = 2
    /\ response.text = "Evidence Pathway"

\* the number of flags the taxpayers a and b of the store share
Shared(a, b) == Cardinality(flagged_by[a] \cap flagged_by[b])

\* C15: in the list of find-related the score of a taxpayer that shares k
\* flags with the queried one is 100*k/18 rounded to one decimal (16.7 for
\* k = 3), the entries are in descending order of k, and the queried
\* taxpayer is not among them.
C15_RelatedScoresAndOrder ==
    related.called =>
        LET rows == related.value
        IN  /\ \A i \in 1..Len(rows) :
                  /\ rows[i].tin # related.tin
                  /\ rows[i].tin \in Tins
                  /\ rows[i].sharedRisks = Shared(related.tin, rows[i].tin)
                  /\ rows[i].sharedRisks >= 1
                  \* within half a tenth of 100*k/18
                  /\ 18 * rows[i].similarityScore - 1000 * rows[i].sharedRisks
                        \in -9..9
                  /\ rows[i].sharedRisks = 3 => rows[i].similarityScore = 167
            /\ \A i, j \in 1..Len(rows) :
                  i < j => rows[i].sharedRisks >= rows[j].sharedRisks

\* a search has listed a taxpayer that shares 3 flags after one that shares
\* no fewer
C15_Witness ==
    /\ related.called
    /\ Len(related.value) >= 2
    /\ \E i \in 1..Len(related.value) :
          /\ related.value[i].sharedRisks = 3
          /\ related.value[i].similarityScore = 167
    /\ \E i \in 1..Len(related.value) : related.value[i].sharedRisks < 3

\* C16: the transcript only grows: every processed input appends exactly
\* two turns, the user's text and then the assistant's response, earlier
\* turns are never changed, and so the transcript is always a sequence of
\* (user, assistant) pairs.
C16_TwoTurnsPerInput ==
    [][/\ Len(messages) <= Len(messages')
       /\ SubSeq(messages', 1, Len(messages)) = messages
       /\ messages' # messages =>
             /\ Len(messages') = Len(messages) + 2
             /\ messages'[Len(messages) + 1] =
                   [role |-> "user", content |-> user_input']
             /\ messages'[Len(messages) + 2].role = "assistant"
       /\ \A i \in 1..Len(messages') :
             messages'[i].role = IF i % 2 = 1 THEN "user" ELSE "assistant"
     ]_vars

(***************************************************************************)
(* Properties of the audit task operations.                                *)
(***************************************************************************)
TaskIds == 1..Len(tasks)

\* C17: after any sequence of task operations every Completed task has
\* progress 100 and a completion date; in particular a task taken from
\* Assigned to In Progress to Completed by status updates.
C17_CompletedHasFullProgress ==
    \A i \in TaskIds :
        tasks[i].Status = "Completed" =>
            /\ tasks[i].ProgressPercent = 100
            /\ tasks[i].CompletedDate # NullDate

\* C18: update_task_status on an existing task stores the requested status
\* whatever the current one is (Assigned to Completed and Completed to
\* Assigned included): the call fails only when the store raises or has no
\* such task, never because of the status the task has.
C18_StatusTransitionsUnguarded ==
    [][last'.op = "update_task_status" =>
          /\ last'.result <=> (last'.ok /\ last'.task_id \in TaskIds)
          /\ last'.result =>
                tasks'[last'.task_id].Status = last'.args.new_status
      ]_vars

\* a Completed task has been set back to Assigned by update_task_status
C18_Witness ==
    /\ last.op = "update_task_status"
    /\ last.result
    /\ last.before = "Completed"
    /\ last.args.new_status = "Assigned"
    /\ tasks[last.task_id].Status = "Assigned"

\* max(0, min(100, p))
Clamped(p) == IF p < 0 THEN 0 ELSE IF p > 100 THEN 100 ELSE p

\* C19: the stored progress is always an integer from 0 to 100: a task is
\* created with 0, update_task_progress(p) stores max(0, min(100, p)) and
\* complete_task stores 100.
C19_ProgressInRange ==
    /\ \A i \in TaskIds : tasks[i].ProgressPercent \in 0..100
    /\ (last.op = "create_audit_task" /\ last.task_id \in TaskIds) =>
          tasks[last.task_id].ProgressPercent = 0
    /\ (last.op = "update_task_progress" /\ last.result) =>
          tasks[last.task_id].ProgressPercent =
              Clamped(last.args.progress_percent)
    /\ (last.op = "complete_task" /\ last.result) =>
          tasks[last.task_id].ProgressPercent = 100

\* update_task_progress(150) has stored 100
C19_Witness ==
    /\ last.op = "update_task_progress"
    /\ last.result
    /\ last.args.progress_percent = 150
    /\ tasks[last.task_id].ProgressPercent = 100

\* C20: with the operations executed one at a time every task has exactly
\* one ASSIGNED_TO edge; reassign_task to an existing auditor replaces the
\* edge by one from the new auditor that records the previous auditor and
\* returns True; for a missing auditor or a missing task it changes nothing
\* and returns False.
C20_OneAssignmentPerTask ==
    [][/\ \A i \in 1..Len(tasks') : Len(assigned_to'[i]) = 1
       /\ last'.op = "reassign_task" =>
             LET id == last'.task_id
                 auditor == last'.args.new_auditor_id
             IN  IF last'.ok /\ id \in TaskIds /\ auditor \in Auditors
                 THEN /\ last'.result
                      /\ tasks' = tasks
                      /\ assigned_to' =
                            [assigned_to EXCEPT ![id] =
                                <<[auditor |-> auditor,
                                   ReassignedFrom |->
                                       assigned_to[id][1].auditor]>>]
                 ELSE /\ ~last'.result
                      /\ tasks' = tasks
                      /\ assigned_to' = assigned_to
      ]_vars

\* a task created for AUD001 has been reassigned to AUD002
C20_Witness ==
    /\ last.op = "reassign_task"
    /\ last.result
    /\ assigned_to[last.task_id] =
          <<[auditor |-> "AUD002", ReassignedFrom |-> "AUD001"]>>

\* the str p is a prefix of the str s
IsPrefix(p, s) == Len(p) <= Len(s) /\ SubSeq(s, 1, Len(p)) = p

\* C21: the notes of a task are an append-only log: the notes before an
\* operation are a prefix of the notes after it; add_task_note and
\* complete_task append one timestamped entry, and update_task_status,
\* update_task_progress and reassign_task never shorten or rewrite them.
C21_NotesAppendOnly ==
    [][/\ \A i \in TaskIds : IsPrefix(tasks[i].Notes, tasks'[i].Notes)
       /\ last'.op \in {"update_task_progress", "reassign_task"} =>
             \A i \in TaskIds : tasks'[i].Notes = tasks[i].Notes
       /\ (last'.op = "add_task_note" /\ last'.result) =>
             tasks'[last'.task_id].Notes =
                 tasks[last'.task_id].Notes
                     \o <<"\n", "[ts] ">> \o last'.args.note
       /\ (last'.op = "complete_task" /\ last'.result) =>
             tasks'[last'.task_id].Notes =
                 tasks[last'.task_id].Notes
                     \o <<"\n", "[COMPLETED ts] ">>
                     \o last'.args.completion_notes
      ]_vars

\* a note has been added to a task that was created with notes
C21_Witness ==
    /\ last.op = "add_task_note"
    /\ last.result
    /\ tasks[last.task_id].Notes = <<"n", "\n", "[ts] ", "n">>

\* C22: a task may be linked to no risk flag: create_audit_task with an
\* existing taxpayer and auditor and an empty or unmatched risk_ids creates
\* the task and returns True, and for every input it returns True if and
\* only if a task node was created.
C22_CreateReturnsTrueIffCreated ==
    last.op = "create_audit_task" =>
        (last.result <=> last.task_id \in TaskIds)

\* C25: every intent that detect_intent returns, other than help, has a
\* dispatch branch of its own in generate_response: the response to
\* search_tin, search_name, risk_analysis, related, pathway, sector_analysis
\* and high_impact is never the static help text.
C25_EveryIntentHasBranch ==
    (pc = "responded" /\ intent # "help") => response.text # "help"

\* C26: some input makes detect_intent return search_name together with a
\* non-empty extracted name.
C26_NameSearchGetsName ==
    \E s \in Inputs :
        LET d == detect_intent(s)
        IN  /\ d.intent = "search_name"
            /\ d.params.has
            /\ ~Missing(d.params.extracted_value)

\* C28: update_task_status stamps the completion date only when the new
\* status is Completed: any other target status leaves CompletedDate as it
\* was, so a task that has never been Completed has no completion date.
C28_CompletionDateOnlyWhenCompleted ==
    [][(last'.op = "update_task_status"
        /\ last'.args.new_status # "Completed") =>
          \A i \in TaskIds : tasks'[i].CompletedDate = tasks[i].CompletedDate
      ]_vars

\* C29: update_task_status with a non-empty note returns True only if the
\* status change and the note both took effect, and returns False without a
\* note when the task does not exist; the status change and its note are
\* never applied one without the other.
C29_StatusAndNoteTogether ==
    [][(last'.op = "update_task_status" /\ last'.args.notes # << >>) =>
          LET id == last'.task_id
              \* the first query ran on an existing task
              status_set == /\ id \in TaskIds
                            /\ last'.ok
                            /\ tasks'[id].Status = last'.args.new_status
              note_added == /\ id \in TaskIds
                            /\ tasks'[id].Notes # tasks[id].Notes
          IN  /\ last'.result => (status_set /\ note_added)
              /\ id \notin TaskIds => (~last'.result /\ tasks' = tasks)
              /\ status_set <=> note_added
      ]_vars

\* C30: a click on a quick-template button makes the template text a user
\* request: after the click and its rerun the transcript has gained a user
\* turn with the template text, followed by the assistant's response to it.
C30_TemplateIsProcessed ==
    [][session_state_user_input' # session_state_user_input =>
          /\ Len(messages') = Len(messages) + 2
          /\ messages'[Len(messages) + 1] =
                [role |-> "user", content |-> session_state_user_input']
          /\ messages'[Len(messages) + 2].role = "assistant"
      ]_vars

\* the text the query of that name has when the user supplies this TIN
TextFor(name, tin) ==
    CASE name = "profile" -> profile_query(tin)
      [] name = "filing" -> filing_query(tin)
      [] name = "risk" -> risk_query(tin)
      [] OTHER -> tin_query

\* C24: the text of every query a dashboard component sends does not depend
\* on the value the user supplied: the same request with another value
\* sends the same text and differs in the bound parameters only.
C24_QueryTextIndependentOfInput ==
    \A i \in 1..Len(sent) :
        \A other \in {tin \in TinInputs : Len(tin) = TinLength} :
            sent[i].text = TextFor(sent[i].name, other)

\* C27: a dashboard write that changes the store clears the cached reads
\* before the dashboard reads again: the step of a button that changed the
\* tasks or their edges leaves no cached task list behind.
C27_CacheClearedAfterWrite ==
    [][<<tasks, assigned_to>>' # <<tasks, assigned_to>> =>
          cache' = NoCache
      ]_vars

\* C23: the writes carry no version check.  A write a session issues from
\* its page, whether or not another session has changed the task since the
\* page was read, is applied and reports success whenever the store answers,
\* and the field it writes then holds the value of this last writer.
C23_NoVersionCheck ==
    [][(writer' \in Sessions /\ now' # now /\ last'.ok
        /\ last'.op # "create_audit_task") =>
          LET id == last'.task_id
          IN  /\ last'.result
              /\ last'.op = "update_task_status" =>
                    tasks'[id].Status = last'.args.new_status
              /\ last'.op = "update_task_progress" =>
                    tasks'[id].ProgressPercent = last'.args.progress_percent
              /\ last'.op = "reassign_task" =>
                    \A i \in 1..Len(assigned_to'[id]) :
                        /\ assigned_to'[id][i].auditor =
                              last'.args.new_auditor_id
                        /\ assigned_to'[id][i].ReassignedFrom =
                              assigned_to[id][i].auditor
              /\ last'.op = "complete_task" =>
                    tasks'[id].Status = "Completed"
      ]_vars

\* session B, whose page still shows the task with its first auditor, has
\* reassigned the task after session A had reassigned it: the edge that B
\* replaced was A's, and B was told that the write succeeded
C23_Witness ==
    /\ writer = "B"
    /\ last.op = "reassign_task"
    /\ last.result
    /\ views["B"].task_id = last.task_id
    /\ views["B"].shown[1].assigned_to[1].auditor = "AUD001"
    /\ assigned_to[last.task_id][1].ReassignedFrom = "AUD002"

====
